---------------------------- MODULE Spec2Model ----------------------------
(***************************************************************************)
(* State estimators of drone_estimator.py: Estimator.run, the dead         *)
(* reckoning update and the extended Kalman filter update.                 *)
(*                                                                         *)
(* Numbers.  The program computes in floating point; every operation       *)
(* rounds its exact result to a representable number.  Here a number is an *)
(* integer r standing for r / SCALE, and every operation rounds its exact  *)
(* result to the nearest multiple of 1 / SCALE.  Exact facts of floating   *)
(* point that the code relies on are kept: x + 0 = x, 0 * x = 0,           *)
(* sin 0 = 0, cos 0 = 1, sqrt 25 = 5.  Vectors are sequences of numbers,   *)
(* matrices are sequences of rows.  Python lists are sequences; Python's   *)
(* 0-based index k is position k + 1.                                      *)
(***************************************************************************)
EXTENDS Integers, Sequences, FiniteSets, TLC

SCALE == 1000 * 1000
ONE == SCALE
KILO == 10 * 10 * 10
FRAC_DIGITS == 2 * 3

Abs(a) == IF a < 0 THEN -a ELSE a
Sgn(a) == IF a < 0 THEN -1 ELSE IF a > 0 THEN 1 ELSE 0

\* |a| * |b| / SCALE rounded to nearest, without leaving 32 bits
MulAbs(a, b) ==
    LET a1 == a \div KILO
        a0 == a % KILO
        b1 == b \div KILO
        b0 == b % KILO
        t1 == a1 * b0
        t2 == a0 * b1
        low == ((t1 % KILO) + (t2 % KILO)) * KILO + a0 * b0
    IN  a1 * b1 + (t1 \div KILO) + (t2 \div KILO) + ((low + (SCALE \div 2)) \div SCALE)

\* a * b
FMul(a, b) == IF a = 0 \/ b = 0 THEN 0 ELSE Sgn(a) * Sgn(b) * MulAbs(Abs(a), Abs(b))

\* 2 * c[2] as <<quotient, remainder>> by b, carrying c[1]; nothing exceeds b
Dbl(c, b) ==
    IF c[2] >= b - c[2] THEN <<2 * c[1] + 1, c[2] - (b - c[2])>>
    ELSE <<2 * c[1], 2 * c[2]>>

\* p + q as <<quotient, remainder>> by b
AddQR(p, q, b) ==
    IF p[2] >= b - q[2] THEN <<p[1] + q[1] + 1, p[2] - (b - q[2])>>
    ELSE <<p[1] + q[1], p[2] + q[2]>>

\* <<(10 * r) \div b, (10 * r) % b>> for 0 <= r < b
Times10(r, b) ==
    LET r2 == Dbl(<<0, r>>, b)
        r8 == Dbl(Dbl(r2, b), b)
    IN  AddQR(r8, r2, b)

\* the quotient q and remainder r of a division by b, carried to k more
\* decimal digits and rounded to nearest
RECURSIVE LongDiv(_, _, _, _)
LongDiv(q, r, b, k) ==
    IF k = 0 THEN q + (IF r >= b - r THEN 1 ELSE 0)
    ELSE LET d == Times10(r, b)
         IN  LongDiv(10 * q + d[1], d[2], b, k - 1)

\* a / b for b # 0
FDiv(a, b) ==
    Sgn(a) * Sgn(b) * LongDiv(Abs(a) \div Abs(b), Abs(a) % Abs(b), Abs(b), FRAC_DIGITS)

\* a / n for a number a and a Python int n # 0
FDivInt(a, n) == Sgn(a) * Sgn(n) * ((2 * Abs(a) + Abs(n)) \div (2 * Abs(n)))

RECURSIVE SqrtSearch(_, _, _)
SqrtSearch(lo, hi, v) ==
    IF lo >= hi THEN lo
    ELSE LET mid == (lo + hi + 1) \div 2
             below == MulAbs(mid, mid) <= v
         IN  SqrtSearch(IF below THEN mid ELSE lo, IF below THEN hi ELSE mid - 1, v)

\* v ** 0.5 for v >= 0
FSqrt(v) ==
    LET r == SqrtSearch(0, 46 * SCALE, v)
    IN  IF v - MulAbs(r, r) <= MulAbs(r + 1, r + 1) - v THEN r ELSE r + 1

PI == 3141593
HALF_PI == 1570796
TWO_PI == 6283185

Horner(z2, k, t) == ONE - ((FMul(z2, t) + (k \div 2)) \div k)

SinPoly(z) ==
    LET z2 == FMul(z, z)
    IN  FMul(z, Horner(z2, 6, Horner(z2, 20, Horner(z2, 42,
                Horner(z2, 72, Horner(z2, 110, ONE))))))

CosPoly(z) ==
    LET z2 == FMul(z, z)
    IN  Horner(z2, 2, Horner(z2, 12, Horner(z2, 30,
            Horner(z2, 56, Horner(z2, 90, Horner(z2, 132, ONE))))))

WrapAngle(a) == ((a + PI) % TWO_PI) - PI

\* np.sin
Sin(a) ==
    LET y == WrapAngle(a)
    IN  IF y > HALF_PI THEN SinPoly(PI - y)
        ELSE IF y < -HALF_PI THEN -SinPoly(PI + y)
        ELSE SinPoly(y)

\* np.cos
Cos(a) ==
    LET y == WrapAngle(a)
    IN  IF y > HALF_PI THEN -CosPoly(PI - y)
        ELSE IF y < -HALF_PI THEN -CosPoly(PI + y)
        ELSE CosPoly(y)

(***************************************************************************)
(* Vectors, matrices and Python lists                                      *)
(***************************************************************************)
RECURSIVE SumTo(_, _)
SumTo(f, n) == IF n = 0 THEN 0 ELSE SumTo(f, n - 1) + f[n]

\* an array with all its entries computed
Array(f) == f \o <<>>

VecAdd(a, b) == Array([k \in 1..Len(a) |-> a[k] + b[k]])
VecSub(a, b) == Array([k \in 1..Len(a) |-> a[k] - b[k]])
VecScale(a, c) == Array([k \in 1..Len(a) |-> FMul(a[k], c)])

\* Python's list[k]: the k-th element, counted from the end when k < 0
PyInRange(list, k) == -Len(list) <= k /\ k < Len(list)
PyGet(list, k) == IF k < 0 THEN list[Len(list) + k + 1] ELSE list[k + 1]

None == <<>>

(***************************************************************************)
(* Estimator.__init__: the physical constants and the landmark             *)
(***************************************************************************)
m == 920000
J == 2300
Gravity == 9806650
lx == 0
ly == 5000000
lz == 5000000


(***************************************************************************)
(* Bounds of the model and the recorded inputs it draws from               *)
(***************************************************************************)
MaxN == 3
MaxCalls == 2
MaxEKFCalls == 1

\* sampling periods of the recording (seconds)
Periods == {100000}

\* true initial states x[0] = (x, z, phi, vx, vz, omega)
InitStates ==
    { <<0, 0, 0, 0, 0, 0>>,
      <<1000000, 2000000, 300000, 0, 0, 0>>,
      <<3000000, 1000000, 1570796, 100000, -200000, 500000>> }

\* inputs u = (thrust, torque): none, hover thrust m * g, thrust with torque
InputSet == { <<0, 0>>, <<12000000, 1000>> }

\* the initial states and inputs of the recordings the Kalman filter reads
EKFInitStates ==
    { <<1000000, 2000000, 300000, 0, 0, 0>>,
      <<3000000, 1000000, 1570796, 100000, -200000, 500000>> }

EKFInputSet == { <<9022118, 0>>, <<12000000, 1000>> }

\* the true state and the measurement (range, bearing) of a clean record
CleanState == <<500000, 500000, 100000, 0, 0, 0>>
CleanMeas == <<6000000, 300000>>

\* what a noisy recording may hold instead: <<true state, (range, bearing)>>
NoisySamples ==
    { <<CleanState, CleanMeas>>,
      <<<<-1000000, 4000000, -200000, 300000, 100000, -100000>>, <<8500000, -400000>>>> }

\* the reserved first element of a 3-element measurement
Reserved == 7000000

VARIABLES file, dr, ekf

vars == <<file, dr, ekf>>

(***************************************************************************)
(* Estimator.__init__ and Estimator.run                                    *)
(***************************************************************************)
\* self.data: n records (time, true state, input, measurement); the
\* measurement slice data[9:12] has ycols elements
FilesOf(n, X0s, Us, Ws) ==
    { [n |-> n, period |-> p, x0 |-> x0, u |-> us, ycols |-> w] :
        p \in Periods, x0 \in X0s, us \in [1..n -> Us], w \in Ws }

\* the recordings the dead reckoning runs read
DRFiles == UNION { FilesOf(n, InitStates, InputSet, {3}) : n \in 1..MaxN }

\* the recordings the Kalman filter runs read
EKFFiles == UNION { FilesOf(n, EKFInitStates, EKFInputSet, {2, 3}) : n \in 1..MaxN }

Files == DRFiles \cup EKFFiles

NumRecords(f) == f.n

\* data[k][0]
TimeOf(f, k) == k * f.period

\* self.dt = self.data[-1][0] / self.data.shape[0]
DtOf(f) == FDivInt(TimeOf(f, NumRecords(f) - 1), NumRecords(f))

\* data[9:12] of a record holding the measurement meas
MeasSlice(f, meas) == IF f.ycols = 3 THEN <<Reserved>> \o meas ELSE meas

\* the record data[k] as run() slices it; smp is what the recording holds at k
Record(f, k, smp) ==
    [ t |-> TimeOf(f, k),
      x |-> IF k = 0 THEN f.x0 ELSE smp[1],
      u |-> f.u[k + 1],
      y |-> MeasSlice(f, smp[2]) ]

\* the samples an estimator built with is_noisy may read at a record
SamplesOf(noisy) == IF noisy THEN NoisySamples ELSE { <<CleanState, CleanMeas>> }

\* lines 96-99 of run(): the four appends
ReadRecord(s, rec) ==
    [s EXCEPT !.t = Append(@, rec.t), !.x = Append(@, rec.x),
              !.u = Append(@, rec.u), !.y = Append(@, rec.y)]

\* line 101 of run(): self.x_hat.append(self.x[-1])
Seed(s) == [s EXCEPT !.x_hat = Append(@, PyGet(s.x, -1))]

(***************************************************************************)
(* DeadReckoning                                                           *)
(***************************************************************************)
DeadReckoningInit(f, noisy) ==
    [ u |-> <<>>, x |-> <<>>, y |-> <<>>, x_hat |-> <<>>, t |-> <<>>,
      dt |-> DtOf(f), noisy |-> noisy,
      time_step |-> 0, old_x |-> None,
      i |-> 0, pc |-> "new", calls |-> 0, err |-> "none" ]

\* the guard of DeadReckoning.update
DRGuard(s) == Len(s.x_hat) > 0 /\ Len(s.u) > s.time_step

\* a dead reckoning that propagates from the latest true state
DRPriorOracle(s) == PyGet(s.x, -1)

\* the state update() propagates from: x[0] at time step 0, old_x afterwards
DRPrior(s) == IF s.time_step = 0 THEN PyGet(s.x, 0) ELSE s.old_x

\* the input update() propagates with
DRInput(s) == PyGet(s.u, s.time_step)

\* a forward Euler step with the sign of gravity flipped
DRPropagateUp(old_x, u, dt) ==
    LET u_1 == u[1]
        u_2 == u[2]
        phi == old_x[3]
        term3 == FDiv(FMul(-u_1, Sin(phi)), m)
        term4 == Gravity + FDiv(FMul(u_1, Cos(phi)), m)
        term5 == FDiv(u_2, J)
    IN  VecAdd(old_x, VecScale(<<old_x[4], old_x[5], old_x[6], term3, term4, term5>>, dt))

\* lines 219-227: one forward Euler step
DRPropagate(old_x, u, dt) ==
    LET u_1 == u[1]
        u_2 == u[2]
        phi == old_x[3]
        term0 == old_x[4]
        term1 == old_x[5]
        term2 == old_x[6]
        term3 == FDiv(FMul(-u_1, Sin(phi)), m)
        term4 == -Gravity + FDiv(FMul(u_1, Cos(phi)), m)
        term5 == FDiv(u_2, J)
    IN  VecAdd(old_x, VecScale(<<term0, term1, term2, term3, term4, term5>>, dt))

\* an update that forgets self.time_step += 1
DRUpdateNoCount(s) ==
    IF DRGuard(s)
    THEN LET new_x == DRPropagate(DRPrior(s), DRInput(s), s.dt)
         IN  [s EXCEPT !.x_hat = Append(@, new_x), !.old_x = new_x]
    ELSE s

\* DeadReckoning.update
DRUpdate(s) ==
    IF DRGuard(s)
    THEN LET new_x == DRPropagate(DRPrior(s), DRInput(s), s.dt)
         IN  [s EXCEPT !.x_hat = Append(@, new_x), !.old_x = new_x,
                       !.time_step = @ + 1]
    ELSE s

\* the end of an iteration of run()
DRAdvance(done, n) ==
    [done EXCEPT !.i = @ + 1, !.pc = IF done.i + 1 = n THEN "returned" ELSE "run"]

\* one iteration of the loop of run() on a DeadReckoning
DRRunStep(s, rec, n) ==
    DRAdvance(IF s.i = 0 THEN Seed(ReadRecord(s, rec))
              ELSE DRUpdate(ReadRecord(s, rec)), n)

DRInstances == {"clean", "noisy"}

DRRunIter(k) ==
    /\ dr[k].pc \in {"new", "run"}
    /\ dr[k].i < NumRecords(file)
    /\ \E smp \in SamplesOf(dr[k].noisy) :
          dr' = [dr EXCEPT ![k] = DRRunStep(dr[k], Record(file, dr[k].i, smp), NumRecords(file))]
    /\ UNCHANGED <<file, ekf>>

\* a driver calls update() itself, outside run()
DRUpdateCall(k) ==
    /\ dr[k].pc \in {"new", "returned"}
    /\ dr[k].calls < MaxCalls
    /\ dr' = [dr EXCEPT ![k] = [DRUpdate(dr[k]) EXCEPT !.calls = @ + 1]]
    /\ UNCHANGED <<file, ekf>>

\* the run on the clean recording is driven by run() alone
DRReferenceRun == DRRunIter("clean")

\* the run on the noisy recording, under any driver
DRNoisyRun == DRRunIter("noisy") \/ DRUpdateCall("noisy")

(***************************************************************************)
(* ExtendedKalmanFilter                                                    *)
(***************************************************************************)
Rows(M) == Len(M)
Cols(M) == Len(M[1])

\* A @ B
MatMul(A, B) ==
    Array([r \in 1..Rows(A) |->
        Array([c \in 1..Cols(B) |->
            SumTo([k \in 1..Rows(B) |-> FMul(A[r][k], B[k][c])], Rows(B))])])

\* A.T
Transpose(A) == Array([c \in 1..Cols(A) |-> Array([r \in 1..Rows(A) |-> A[r][c]])])

MatAdd(A, B) == Array([r \in 1..Rows(A) |-> VecAdd(A[r], B[r])])
MatSub(A, B) == Array([r \in 1..Rows(A) |-> VecSub(A[r], B[r])])

\* K @ v for a vector v
MatVec(A, v) ==
    Array([r \in 1..Rows(A) |-> SumTo([k \in 1..Len(v) |-> FMul(A[r][k], v[k])], Len(v))])

\* np.diag(d)
Diag(d) == Array([r \in 1..Len(d) |-> Array([c \in 1..Len(d) |-> IF r = c THEN d[r] ELSE 0])])

\* np.eye(n)
Eye(n) == Array([r \in 1..n |-> Array([c \in 1..n |-> IF r = c THEN ONE ELSE 0])])

\* np.zeros((r, c)) with the entries of the function e assigned
Sparse(nr, nc, e) ==
    Array([r \in 1..nr |->
        Array([c \in 1..nc |-> IF <<r, c>> \in DOMAIN e THEN e[<<r, c>>] ELSE 0])])

\* np.linalg.inv of a 2 x 2 matrix: LU factorisation with partial pivoting,
\* then the solve for the identity; None when a pivot is exactly zero
\* (LinAlgError: Singular matrix)
Inv2(S) ==
    LET swap == Abs(S[2][1]) > Abs(S[1][1])
        a == IF swap THEN S[2][1] ELSE S[1][1]
        b == IF swap THEN S[2][2] ELSE S[1][2]
        c == IF swap THEN S[1][1] ELSE S[2][1]
        d == IF swap THEN S[1][2] ELSE S[2][2]
        l == FDiv(c, a)
        u22 == d - FMul(l, b)
        \* the solution of L U x = (r1, r2)
        sol(r1, r2) ==
            LET y2 == r2 - FMul(l, r1)
                x2 == FDiv(y2, u22)
                x1 == FDiv(r1 - FMul(b, x2), a)
            IN  <<x1, x2>>
        col1 == IF swap THEN sol(0, ONE) ELSE sol(ONE, 0)
        col2 == IF swap THEN sol(ONE, 0) ELSE sol(0, ONE)
    IN  IF a = 0 THEN None
        ELSE IF u22 = 0 THEN None
        ELSE << <<col1[1], col2[1]>>, <<col1[2], col2[2]>> >>

Q == Diag(<<1000000, 1000000, 1000000, 100000, 100000, 100000>>)
R == Diag(<<30000000, 10000000>>)
P0 == Diag(<<5000000, 5000000, 5000000, 1000000, 1000000, 1000000>>)

ExtendedKalmanFilterInit(f) ==
    [ u |-> <<>>, x |-> <<>>, y |-> <<>>, x_hat |-> <<>>, t |-> <<>>,
      dt |-> DtOf(f),
      time_step |-> 0, old_x |-> None, A |-> Eye(6), P |-> P0, C |-> None,
      i |-> 0, pc |-> "new", calls |-> 0, arg |-> 0, err |-> "none" ]

\* ExtendedKalmanFilter.g
g(x, u, dt) ==
    LET u_1 == u[1]
        u_2 == u[2]
        phi == x[3]
        dv == x[4]
        dz == x[5]
        dphi == x[6]
        ddv == FDiv(FMul(-u_1, Sin(phi)), m)
        ddz == -Gravity + FDiv(FMul(u_1, Cos(phi)), m)
        ddphi == FDiv(u_2, J)
    IN  VecAdd(x, VecScale(<<dv, dz, dphi, ddv, ddz, ddphi>>, dt))

\* the distance of (x, z) to the landmark
Dist(x, z) ==
    FSqrt(FMul(lx - x, lx - x) + FMul(ly, ly) + FMul(lz - z, lz - z))

\* ExtendedKalmanFilter.h with a measurement of two elements
h(x_hat, y_obs) ==
    LET h_x_hat == <<Dist(x_hat[1], x_hat[2]), x_hat[3]>>
    IN  VecSub(y_obs, h_x_hat)

\* whether y_obs - h_x_hat broadcasts: shapes (n,) and (2,)
Broadcasts(y_obs) == Len(y_obs) \in {1, 2}

\* ExtendedKalmanFilter.approx_A
approx_A(x, u, dt) ==
    LET u_1 == u[1]
        phi == x[3]
        dphi == x[6]
        dg32 == -FDiv(FMul(FMul(FMul(u_1, Cos(phi)), dphi), dt), m)
        dg42 == -FDiv(FMul(FMul(FMul(u_1, Sin(phi)), dphi), dt), m)
        dg == Eye(6)
    IN  [dg EXCEPT ![1][4] = dt, ![2][5] = dt, ![3][6] = dt,
                   ![4][3] = dg32, ![5][3] = dg42]

\* ExtendedKalmanFilter.approx_C
approx_C(x) ==
    LET x_i == x[1]
        z == x[2]
        dist == Dist(x_i, z)
        dh1_dx1 == -FDiv(lx - x_i, dist)
        dh1_dx2 == -FDiv(lz - z, dist)
        dh2_dx3 == ONE
    IN  Sparse(2, 6, (<<1, 1>> :> dh1_dx1) @@ (<<1, 2>> :> dh1_dx2) @@ (<<2, 3>> :> dh2_dx3))

\* line 289: P = A @ P @ A.T + Q
PredictCov(A, P) == MatAdd(MatMul(MatMul(A, P), Transpose(A)), Q)

\* line 291: C @ P @ C.T + R
InnovationCov(C, Pp) == MatAdd(MatMul(MatMul(C, Pp), Transpose(C)), R)

PredictAt(conditional_x, A, Pp, C) ==
    [conditional_x |-> conditional_x, A |-> A, P |-> Pp, C |-> C,
     S |-> InnovationCov(C, Pp)]

PredictFrom(conditional_x, A, P) ==
    PredictAt(conditional_x, A, PredictCov(A, P), approx_C(conditional_x))

\* lines 287-291: prediction, linearisation and the innovation covariance
Predict(old_x, u, P, dt) == PredictFrom(g(old_x, u, dt), approx_A(old_x, u, dt), P)

\* line 292: new_x = conditional_x + K @ h(conditional_x, y)
\* line 293: P = (I - K @ C) @ P
CorrectWith(pr, K, y_obs) ==
    [new_x |-> VecAdd(pr.conditional_x, MatVec(K, h(pr.conditional_x, y_obs))),
     P |-> MatMul(MatSub(Eye(6), MatMul(K, pr.C)), pr.P),
     K |-> K]

\* lines 291-293: the gain, the corrected estimate and covariance;
\* Sinv is np.linalg.inv(S)
Correct(pr, Sinv, y_obs) ==
    CorrectWith(pr, MatMul(MatMul(pr.P, Transpose(pr.C)), Sinv), y_obs)

\* line 284-285: the estimate update(i) starts from
EKFPrior(s, i) == IF i = 1 THEN PyGet(s.x_hat, 0) ELSE s.old_x

\* update(i) reading the input of its own step
InputIndexSameStep(i) == i

\* line 286: the index of the input update(i) uses
InputIndex(i) == i - 1

\* line 292: the index of the measurement update(i) uses
MeasIndex(i) == i

Raise(s, e) == [s EXCEPT !.err = e]

\* lines 294-295, then line 302: (time.time() - self.start_time) / i
UpdateDone(s, i, co) ==
    [s EXCEPT !.P = co.P, !.x_hat = Append(@, co.new_x), !.old_x = co.new_x,
              !.err = IF i = 0 THEN "ZeroDivisionError" ELSE "none"]

\* lines 291-292: np.linalg.inv, self.y[i] and the subtraction in h
UpdateInv(s, i, pr, Sinv) ==
    IF Sinv = None THEN Raise(s, "LinAlgError")
    ELSE IF ~PyInRange(s.y, MeasIndex(i)) THEN Raise(s, "IndexError")
    ELSE IF ~Broadcasts(PyGet(s.y, MeasIndex(i))) THEN Raise(s, "ValueError")
    ELSE UpdateDone(s, i, Correct(pr, Sinv, PyGet(s.y, MeasIndex(i))))

\* lines 288 and 290 assign self.A and self.C
UpdateWith(s, i, pr) == UpdateInv([s EXCEPT !.A = pr.A, !.C = pr.C], i, pr, Inv2(pr.S))

\* lines 286-287: self.u[i - 1] and g(self.old_x, u)
UpdateFrom(s, i) ==
    IF ~PyInRange(s.u, InputIndex(i)) THEN Raise(s, "IndexError")
    ELSE IF s.old_x = None THEN Raise(s, "TypeError")
    ELSE UpdateWith(s, i, Predict(s.old_x, PyGet(s.u, InputIndex(i)), s.P, s.dt))

\* ExtendedKalmanFilter.update(i): the estimator afterwards; err names the
\* exception the call left with
EKFUpdate(s, i) ==
    IF Len(s.x_hat) = 0 THEN [s EXCEPT !.err = "none", !.arg = i]
    ELSE UpdateFrom([s EXCEPT !.err = "none", !.arg = i, !.old_x = EKFPrior(s, i)], i)

\* the end of an iteration of run(): an exception leaves the loop
EKFAdvance(done, n) ==
    [done EXCEPT !.i = @ + 1,
                 !.pc = IF done.err # "none" THEN "raised"
                        ELSE IF done.i + 1 = n THEN "returned"
                        ELSE "run"]

\* one iteration of the loop of run() on an ExtendedKalmanFilter
EKFRunStep(s, rec, n) ==
    EKFAdvance(IF s.i = 0 THEN Seed(ReadRecord(s, rec))
               ELSE EKFUpdate(ReadRecord(s, rec), s.i), n)

EKFRunIter ==
    /\ ekf.pc \in {"new", "run"}
    /\ ekf.i < NumRecords(file)
    /\ \E smp \in NoisySamples :
          ekf' = EKFRunStep(ekf, Record(file, ekf.i, smp), NumRecords(file))
    /\ UNCHANGED <<file, dr>>

\* a driver calls update(i) itself, outside run()
EKFUpdateCall ==
    /\ ekf.pc \in {"new", "returned", "raised"}
    /\ ekf.calls < MaxEKFCalls
    /\ \E i \in 0..2 :
          ekf' = [EKFUpdate(ekf, i) EXCEPT !.calls = @ + 1]
    /\ UNCHANGED <<file, dr>>

InitWith(F) ==
    /\ file \in F
    /\ dr = [k \in DRInstances |-> DeadReckoningInit(file, k = "noisy")]
    /\ ekf = ExtendedKalmanFilterInit(file)

Init == InitWith(Files)

NextDR == DRReferenceRun \/ DRNoisyRun

NextEKF == EKFRunIter \/ EKFUpdateCall

Next == NextDR \/ NextEKF

Spec == Init /\ [][Next]_vars

\* the dead reckoning runs alone
SpecDR == InitWith(DRFiles) /\ [][NextDR]_vars

\* the Kalman filter run alone
SpecEKF == InitWith(EKFFiles) /\ [][NextEKF]_vars


(***************************************************************************)
(* Dead reckoning: properties                                               *)
(***************************************************************************)
Min(a, b) == IF a < b THEN a ELSE b

\* C3: the estimates of two dead reckoning runs whose recordings agree on
\* x[0] and on every input, and differ in the measurements and in the later
\* true states, are the same index by index.
C3_SameEstimates ==
    \A j \in 1..Min(Len(dr["clean"].x_hat), Len(dr["noisy"].x_hat)) :
        dr["clean"].x_hat[j] = dr["noisy"].x_hat[j]

\* both runs propagated twice from recordings that differ in y and in x
C3_Witness ==
    /\ Len(dr["clean"].x_hat) >= 3
    /\ Len(dr["noisy"].x_hat) >= 3
    /\ dr["clean"].y[2] # dr["noisy"].y[2]
    /\ dr["clean"].x[3] # dr["noisy"].x[3]
    /\ dr["noisy"].x_hat[3] # dr["noisy"].x_hat[2]

\* a call of DeadReckoning.update: a step of run() past the first record, or
\* a call by the driver
DRCalled(s, t) ==
    \/ t.calls = s.calls + 1
    \/ t.i = s.i + 1 /\ s.i >= 1

\* what update() looks at, after run() has appended the record if it did
DRAtCall(s, t) == [s EXCEPT !.u = t.u, !.x = t.x, !.y = t.y, !.t = t.t]

DRNoOp(s, t) ==
    /\ t.x_hat = s.x_hat
    /\ t.time_step = s.time_step
    /\ t.old_x = s.old_x

DRCounts(s) ==
    /\ s.time_step <= Len(s.u)
    /\ Len(s.x_hat) > 0 => Len(s.x_hat) = 1 + s.time_step

\* C7: DeadReckoning.update called with no estimate seeded or with no input
\* left (len(u) <= time_step) changes neither x_hat nor time_step nor old_x;
\* always time_step <= len(u), and len(x_hat) = 1 + time_step once seeded.
C7_NoOpWithoutInput ==
    /\ [](\A k \in DRInstances : DRCounts(dr[k]))
    /\ [][\A k \in DRInstances :
            (DRCalled(dr[k], dr'[k]) /\ ~DRGuard(DRAtCall(dr[k], dr'[k])))
                => DRNoOp(dr[k], dr'[k])]_vars

\* the driver called update() after every input had been used, and once
\* more before: the estimates stopped at 1 + len(u)
C7_Witness ==
    /\ dr["noisy"].pc = "returned"
    /\ dr["noisy"].calls = 2
    /\ dr["noisy"].time_step = Len(dr["noisy"].u)
    /\ Len(dr["noisy"].x_hat) = 1 + Len(dr["noisy"].u)

ZeroInput == <<0, 0>>

\* the run started at rest and every input read so far is zero
AtRestUnforced(s) ==
    /\ Len(s.x) > 0
    /\ s.x[1][4] = 0 /\ s.x[1][5] = 0 /\ s.x[1][6] = 0
    /\ \A j \in 1..Len(s.u) : s.u[j] = ZeroInput

\* C8 as stated: from rest and with zero inputs every estimate equals the
\* initial state.
C8_NoDrift ==
    \A k \in DRInstances :
        AtRestUnforced(dr[k]) =>
            \A j \in 1..Len(dr[k].x_hat) : dr[k].x_hat[j] = dr[k].x[1]

\* the free fall of an estimate over one step of length dt
FreeFall(e, dt) ==
    <<e[1], e[2] + FMul(e[5], dt), e[3], e[4], e[5] + FMul(-Gravity, dt), e[6]>>

\* C8 as amended: from rest and with zero inputs every estimate keeps x,
\* phi, vx and omega of the initial state, and each step lowers vz by g * dt
\* and moves z by dt times the previous vz.
C8_FreeFall ==
    \A k \in DRInstances :
        AtRestUnforced(dr[k]) =>
            /\ \A j \in 1..Len(dr[k].x_hat) :
                  /\ dr[k].x_hat[j][1] = dr[k].x[1][1]
                  /\ dr[k].x_hat[j][3] = dr[k].x[1][3]
                  /\ dr[k].x_hat[j][4] = 0
                  /\ dr[k].x_hat[j][6] = 0
            /\ \A j \in 1..(Len(dr[k].x_hat) - 1) :
                  dr[k].x_hat[j + 1] = FreeFall(dr[k].x_hat[j], dr[k].dt)

\* a run from rest with zero inputs that propagated twice over a positive dt
C8_Witness ==
    /\ AtRestUnforced(dr["noisy"])
    /\ dr["noisy"].dt > 0
    /\ Len(dr["noisy"].x_hat) >= 3
    /\ dr["noisy"].x[1][3] # 0


(***************************************************************************)
(* Extended Kalman filter: properties                                       *)
(***************************************************************************)
\* run() called update(k) and the call appended an estimate
EKFRunAppended(s, t) ==
    /\ t.i = s.i + 1
    /\ s.i >= 1
    /\ Len(t.x_hat) = Len(s.x_hat) + 1

\* the estimate update(k) must append: predicted from the k-th entry of
\* x_hat (x_hat[k-1]) with the k-th input (u[k-1]), corrected with the
\* (k+1)-th measurement (y[k])
AlignedEstimate(prior, u, P, dt, y_obs) ==
    LET pr == Predict(prior, u, P, dt)
    IN  Correct(pr, Inv2(pr.S), y_obs).new_x

C2_OneEstimatePerRecord ==
    ekf.calls = 0 =>
        /\ Len(ekf.x_hat) = Len(ekf.u)
        /\ Len(ekf.x_hat) = Len(ekf.t)
        /\ Len(ekf.x_hat) = Len(ekf.x)
        /\ Len(ekf.x_hat) = Len(ekf.y)
        /\ Len(ekf.x_hat) > 0 => ekf.x_hat[1] = file.x0
        /\ ekf.pc # "raised"
        /\ ekf.pc = "returned" => Len(ekf.x_hat) = NumRecords(file)

\* the same for dead reckoning
C2_DeadReckoning ==
    \A k \in DRInstances :
        dr[k].calls = 0 =>
            /\ Len(dr[k].x_hat) = Len(dr[k].u)
            /\ Len(dr[k].x_hat) = Len(dr[k].t)
            /\ Len(dr[k].x_hat) > 0 => dr[k].x_hat[1] = file.x0
            /\ dr[k].pc = "returned" => Len(dr[k].x_hat) = NumRecords(file)

IsSymmetric(M) == \A r \in 1..Len(M) : \A c \in 1..Len(M) : M[r][c] = M[c][r]

\* consequences of positive semi-definiteness: no negative diagonal entry
\* and no negative principal minor of order two
NonNegativeMinors(M) ==
    \A r \in 1..Len(M) :
        /\ M[r][r] >= 0
        /\ \A c \in 1..Len(M) : FMul(M[r][r], M[c][c]) >= FMul(M[r][c], M[c][r])

\* C4 as stated: P is symmetric and positive semi-definite after every
\* update.
C4_SymmetricPSD == IsSymmetric(ekf.P) /\ NonNegativeMinors(ekf.P)

\* the part of C4 the rounded products keep
C4_MinorsOnly == NonNegativeMinors(ekf.P)

\* the preconditions C6 names for update(i)
EKFCanUpdate(s, i) ==
    /\ Len(s.x_hat) > 0
    /\ Len(s.u) > 0
    /\ s.old_x # None \/ i = 1

\* C6 as stated: update(i) called with a precondition violated raises
\* nothing and leaves x_hat, P, A and old_x as they were.
C6_SilentNoOp ==
    [][(ekf'.calls = ekf.calls + 1 /\ ~EKFCanUpdate(ekf, ekf'.arg)) =>
        /\ ekf'.err = "none"
        /\ ekf'.x_hat = ekf.x_hat
        /\ ekf'.P = ekf.P
        /\ ekf'.A = ekf.A
        /\ ekf'.old_x = ekf.old_x]_vars

\* the step of the finite difference, 0.01, and the tolerance, 1e-4
FDStep == SCALE \div 100
JacobianTolerance == SCALE \div 10000

Perturbed(x, c, d) == [x EXCEPT ![c] = @ + d]

\* the central finite difference of the r-th component of g along x[c]
FiniteDifference(x, u, dt, r, c) ==
    FDiv(g(Perturbed(x, c, FDStep), u, dt)[r] - g(Perturbed(x, c, -FDStep), u, dt)[r],
         2 * FDStep)

JacobianMatches(x, u, dt) ==
    LET dg == approx_A(x, u, dt)
    IN  \A r \in 1..6 : \A c \in 1..6 :
            Abs(dg[r][c] - FiniteDifference(x, u, dt, r, c)) <= JacobianTolerance

\* C9 as stated: at every estimate and input the filter linearises at,
\* approx_A agrees entry by entry, within 1e-4, with the finite difference
\* of g.
C9_JacobianOfG ==
    \A j \in 1..Len(ekf.x_hat) :
        JacobianMatches(ekf.x_hat[j], ekf.u[Min(j, Len(ekf.u))], ekf.dt)

\* C10 as stated: with measurement records of three elements every
\* update(k) that run() reaches completes and appends the estimate of
\* step k.
C10_ThreeElementRecord ==
    (file.ycols = 3 /\ ekf.calls = 0 /\ ekf.i >= 2) =>
        /\ ekf.err = "none"
        /\ Len(ekf.x_hat) = ekf.i

=============================================================================
